---- MODULE Spec2Model ----
(***************************************************************************)
(* srm: a replacement for rm that moves its operands to a trash directory. *)
(* The model follows src/srm.go: getTargetRmDir, parseArgs and the body of *)
(* main, with the helpers In, IsDir, IsReadOnly and getUserConfirmation.   *)
(*                                                                         *)
(* Strings that the program indexes, splits or trims (command-line tokens, *)
(* paths, the user's responses) are sequences of one-character strings.    *)
(* Everything the program does to the outside world (a line printed, a     *)
(* prompt and its answer, a stat call, a rename call) is appended to       *)
(* trace in the order the code performs it.                                *)
(***************************************************************************)
EXTENDS Integers, Sequences, FiniteSets, TLC

VARIABLES args, pc, targetDir, flags, files, idx, fs, trash, trace, exit

vars == <<args, pc, targetDir, flags, files, idx, fs, trash, trace, exit>>

-----------------------------------------------------------------------------
(* Bounds of the model *)

\* the longest command line (tokens after the program name) of a full run
MaxArgs == 5
\* the most os.Rename calls that fail in one run
MaxRenameFailures == 1
\* the longest token sequence given to the argument classifier on its own
MaxParse == 3

-----------------------------------------------------------------------------
(* Tokens *)

DoubleDash == <<"-", "-">>

VALIDARGS ==
    << <<"-", "h">>,
       <<"-", "-", "h", "e", "l", "p">>,
       <<"-", "P">>,
       <<"-", "f">>,
       <<"-", "i">>,
       <<"-", "I">>,
       <<"-", "r">>,
       <<"-", "R">>,
       <<"-", "d">>,
       <<"-", "v">> >>

\* In(needle, haystack): the linear search of the helper
In(needle, haystack) ==
    \E k \in 1..Len(haystack) : needle = haystack[k]

-----------------------------------------------------------------------------
(* String helpers of the standard library, as main uses them *)

\* strings.TrimRight(s, "/"): s without its trailing separators
RECURSIVE TrimRight(_)
TrimRight(s) ==
    IF s # <<>> /\ s[Len(s)] = "/"
    THEN TrimRight(SubSeq(s, 1, Len(s) - 1))
    ELSE s

\* the last element of strings.Split(s, "/"): what follows the last separator
RECURSIVE LastSegment(_)
LastSegment(s) ==
    IF s = <<>> THEN <<>>
    ELSE IF s[Len(s)] = "/" THEN <<>>
    ELSE Append(LastSegment(SubSeq(s, 1, Len(s) - 1)), s[Len(s)])

UpperCase ==
    <<"A", "B", "C", "D", "E", "F", "G", "H", "I", "J", "K", "L", "M",
      "N", "O", "P", "Q", "R", "S", "T", "U", "V", "W", "X", "Y", "Z">>
LowerCase ==
    <<"a", "b", "c", "d", "e", "f", "g", "h", "i", "j", "k", "l", "m",
      "n", "o", "p", "q", "r", "s", "t", "u", "v", "w", "x", "y", "z">>

\* unicode.ToLower on the letters the responses are made of
LowerChar(c) ==
    IF \E k \in 1..Len(UpperCase) : UpperCase[k] = c
    THEN LowerCase[CHOOSE k \in 1..Len(UpperCase) : UpperCase[k] = c]
    ELSE c

\* strings.ToLower
ToLower(s) == [k \in 1..Len(s) |-> LowerChar(s[k])]

-----------------------------------------------------------------------------
(* parseArgs *)

\* parseLoop without the test of seenDoubleDash: a flag is a flag anywhere
RECURSIVE parseLoop_IgnoresMarker(_, _, _, _)
parseLoop_IgnoresMarker(rest, fl, fi, seenDoubleDash) ==
    IF rest = <<>> THEN [flags |-> fl, files |-> fi]
    ELSE LET arg == Head(rest) IN
         IF arg = DoubleDash
         THEN parseLoop_IgnoresMarker(Tail(rest), fl, fi, TRUE)
         ELSE IF In(arg, VALIDARGS)
         THEN parseLoop_IgnoresMarker(Tail(rest), Append(fl, arg), fi, seenDoubleDash)
         ELSE parseLoop_IgnoresMarker(Tail(rest), fl, Append(fi, arg), seenDoubleDash)

\* parseLoop that does not know -P: the token is an operand
RECURSIVE parseLoop_NoOpIsOperand(_, _, _, _)
parseLoop_NoOpIsOperand(rest, fl, fi, seenDoubleDash) ==
    IF rest = <<>> THEN [flags |-> fl, files |-> fi]
    ELSE LET arg == Head(rest) IN
         IF arg = DoubleDash
         THEN parseLoop_NoOpIsOperand(Tail(rest), fl, fi, TRUE)
         ELSE IF In(arg, VALIDARGS) /\ arg # <<"-", "P">> /\ ~seenDoubleDash
         THEN parseLoop_NoOpIsOperand(Tail(rest), Append(fl, arg), fi, seenDoubleDash)
         ELSE parseLoop_NoOpIsOperand(Tail(rest), fl, Append(fi, arg), seenDoubleDash)

\* the loop of parseArgs over the remaining tokens
RECURSIVE parseLoop(_, _, _, _)
parseLoop(rest, fl, fi, seenDoubleDash) ==
    IF rest = <<>> THEN [flags |-> fl, files |-> fi]
    ELSE LET arg == Head(rest) IN
         IF arg = DoubleDash
         THEN parseLoop(Tail(rest), fl, fi, TRUE)
         ELSE IF In(arg, VALIDARGS) /\ ~seenDoubleDash
         THEN parseLoop(Tail(rest), Append(fl, arg), fi, seenDoubleDash)
         ELSE parseLoop(Tail(rest), fl, Append(fi, arg), seenDoubleDash)

parseArgs(a) == parseLoop(a, <<>>, <<>>, FALSE)

-----------------------------------------------------------------------------
(* The flag booleans main derives from the flag list *)

\* helpFlag without the long spelling
helpFlag_ShortOnly == In(<<"-", "h">>, flags)

helpFlag == In(<<"-", "h">>, flags) \/ In(<<"-", "-", "h", "e", "l", "p">>, flags)

\* forceFlag as a toggle: set when -f is given an odd number of times
forceFlag_Toggle ==
    Cardinality({k \in 1..Len(flags) : flags[k] = <<"-", "f">>}) % 2 = 1

forceFlag == In(<<"-", "f">>, flags)

\* interactiveFlag that -f overrides
interactiveFlag_UnlessForce == In(<<"-", "i">>, flags) /\ ~In(<<"-", "f">>, flags)

interactiveFlag == In(<<"-", "i">>, flags)

\* nonintrusiveInteractiveFlag that reads the token of interactiveFlag
nonintrusiveInteractiveFlag_Lowercase == In(<<"-", "i">>, flags)

nonintrusiveInteractiveFlag == In(<<"-", "I">>, flags)

\* recursiveFlag without the second spelling
recursiveFlag_LowercaseOnly == In(<<"-", "r">>, flags)

recursiveFlag == In(<<"-", "r">>, flags) \/ In(<<"-", "R">>, flags)

directoryFlag == In(<<"-", "d">>, flags)

verboseFlag == In(<<"-", "v">>, flags)

\* filesCount that counts the flags as well
filesCount_WithFlags == Len(files) + Len(flags)

filesCount == Len(files)

-----------------------------------------------------------------------------
(* The file system the program runs against *)

PathSA == <<"s", "/", "a">>
PathB == <<"b">>
PathD == <<"d">>
PathDSlash == <<"d", "/">>
PathX == <<"x">>

\* s/a: a writable regular file; b: a regular file without the owner's write
\* bit; d: a writable directory; x: no such file
World ==
    (PathSA :> [exists |-> TRUE, dir |-> FALSE, ro |-> FALSE])
    @@ (PathB :> [exists |-> TRUE, dir |-> FALSE, ro |-> TRUE])
    @@ (PathD :> [exists |-> TRUE, dir |-> TRUE, ro |-> FALSE])
    @@ (PathX :> [exists |-> FALSE, dir |-> FALSE, ro |-> FALSE])

\* os.Stat: trailing separators are resolved by the kernel, and a path with a
\* trailing separator that names a non-directory is an error (ENOTDIR)
Stat(f, path) ==
    LET p == TrimRight(path) IN
    IF p \notin DOMAIN f \/ ~f[p].exists
    THEN [err |-> TRUE, dir |-> FALSE, ro |-> FALSE]
    ELSE IF p # path /\ ~f[p].dir
    THEN [err |-> TRUE, dir |-> FALSE, ro |-> FALSE]
    ELSE [err |-> FALSE, dir |-> f[p].dir, ro |-> f[p].ro]

\* IsDir that drops the error of os.Stat
IsDir_DropsError(f, filepath) ==
    LET fi == Stat(f, filepath) IN
    IF fi.err THEN [val |-> FALSE, err |-> FALSE]
    ELSE [val |-> fi.dir, err |-> FALSE]

\* IsDir: (false, err) on a stat error, otherwise (fi.Mode().IsDir(), nil)
IsDir(f, filepath) ==
    LET fi == Stat(f, filepath) IN
    IF fi.err THEN [val |-> FALSE, err |-> TRUE]
    ELSE [val |-> fi.dir, err |-> FALSE]

\* IsReadOnly with the test of the write bit inverted
IsReadOnly_Inverted(f, filepath) ==
    LET fi == Stat(f, filepath) IN
    IF fi.err THEN [val |-> FALSE, err |-> TRUE]
    ELSE [val |-> ~fi.ro, err |-> FALSE]

\* IsReadOnly: (false, err) on a stat error, otherwise (perm&0200 == 0, nil)
IsReadOnly(f, filepath) ==
    LET fi == Stat(f, filepath) IN
    IF fi.err THEN [val |-> FALSE, err |-> TRUE]
    ELSE [val |-> fi.ro, err |-> FALSE]

\* os.Rename when it succeeds: the source is gone, the destination exists
RenameDone(f, src) == [f EXCEPT ![src].exists = FALSE]

-----------------------------------------------------------------------------
(* getUserConfirmation *)

AFFIRMATIVE ==
    << <<"y">>, <<"y", "e", "s">>, <<"y", "e", "a">>, <<"y", "e", "a", "h">>,
       <<"d", "a">>, <<"s", "i">>, <<"l", "e", "t", "s", "g", "o">> >>

\* what fmt.Scanln leaves in interactiveResponse: the token read, or the empty
\* string on an empty line or a read failure
Responses ==
    { <<>>, <<"n">>, <<"Y", "E", "S">> }

\* getUserConfirmation that takes an empty response for a yes
getUserConfirmation_EmptyIsYes(interactiveResponse) ==
    interactiveResponse = <<>> \/ In(ToLower(interactiveResponse), AFFIRMATIVE)

\* getUserConfirmation without strings.ToLower
getUserConfirmation_NoFold(interactiveResponse) ==
    In(interactiveResponse, AFFIRMATIVE)

\* the boolean getUserConfirmation returns for a response
getUserConfirmation(interactiveResponse) ==
    In(ToLower(interactiveResponse), AFFIRMATIVE)

-----------------------------------------------------------------------------
(* What the program does to the outside world *)

NoPath == <<>>

\* op: the call; i: the operand's position in files (0 outside the loop);
\* n: the %d of the message; path: its %s, or the path given to the call;
\* dest: the second path of os.Rename, or the response read by a prompt;
\* res: the message or the call's result; ok: the boolean the call returns
Ev(op, i, n, path, dest, res, ok) ==
    [op |-> op, i |-> i, n |-> n, path |-> path, dest |-> dest, res |-> res, ok |-> ok]

\* usage()
EvUsage == Ev("usage", 0, 0, NoPath, NoPath, "", TRUE)
\* fmt.Println("Could not get users home dir")
EvNoHome == Ev("print", 0, 0, NoPath, NoPath, "Could not get users home dir", TRUE)
\* getUserConfirmation("remove %d files?") reads resp
EvCountPrompt(n, resp) ==
    Ev("prompt", 0, n, NoPath, resp, "remove %d files?", getUserConfirmation(resp))
\* getUserConfirmation("recursively remove %s?") reads resp
EvRecPrompt(i, path, resp) ==
    Ev("prompt", i, 0, path, resp, "recursively remove %s?", getUserConfirmation(resp))
\* getUserConfirmation("remove %s?") reads resp
EvFilePrompt(i, path, resp) ==
    Ev("prompt", i, 0, path, resp, "remove %s?", getUserConfirmation(resp))
\* the os.Stat of IsDir and its result
EvIsDir(i, path, r) ==
    Ev("IsDir", i, 0, path, NoPath, IF r.err THEN "err" ELSE IF r.val THEN "dir" ELSE "notdir", ~r.err)
\* the os.Stat of IsReadOnly and its result
EvIsReadOnly(i, path, r) ==
    Ev("IsReadOnly", i, 0, path, NoPath, IF r.err THEN "err" ELSE IF r.val THEN "ro" ELSE "rw", ~r.err)
\* fmt.Println(err)
EvErr(i, path) == Ev("print", i, 0, path, NoPath, "err", TRUE)
\* fmt.Printf("srm: %s: is a directory\n", filepath)
EvIsADirectory(i, path) == Ev("print", i, 0, path, NoPath, "srm: %s: is a directory", TRUE)
\* fmt.Println("File is read-only")
EvReadOnly(i) == Ev("print", i, 0, NoPath, NoPath, "File is read-only", TRUE)
\* fmt.Println(filename)
EvVerbose(i, filename) == Ev("print", i, 0, filename, NoPath, "filename", TRUE)
\* os.Rename(filepath, dest), ok: whether the call succeeded
EvRename(i, src, dest, ok) == Ev("Rename", i, 0, src, dest, "", ok)

-----------------------------------------------------------------------------
(* getTargetRmDir *)

HomeTrash == <<"~", "/", ".", "T", "r", "a", "s", "h">>
Tmp == <<"/", "t", "m", "p">>

\* os.Stat(homeDir + "/.Trash") in the file system of the run: there is no
\* ~/.Trash
TrashExists == FALSE

\* getTargetRmDir's result when os.UserHomeDir succeeds
getTargetRmDir == IF TrashExists THEN HomeTrash ELSE Tmp

-----------------------------------------------------------------------------
(* One iteration of the loop of main over files *)

\* -I asks once when more than this many files are named
BatchThreshold == 3

\* os.Stat sees the file system as it is at the call: between the two queries
\* of an iteration (the user may be sitting at a prompt) somebody else may
\* have removed the file
Vanished(f, path) == [f EXCEPT ![TrimRight(path)].exists = FALSE]

\* how an iteration ends, with what it did (ev) and the file system it leaves
Exit(ev, f) == [ev |-> ev, end |-> "exit", src |-> NoPath, dest |-> NoPath, fs |-> f]
Continue(ev, f) == [ev |-> ev, end |-> "continue", src |-> NoPath, dest |-> NoPath, fs |-> f]
Rename(ev, f, src, dest) == [ev |-> ev, end |-> "rename", src |-> src, dest |-> dest, fs |-> f]

\* The body of the loop for the operand filepath0 at position i, against the
\* file system f, with the user's responses to the two prompts should they be
\* asked, and whether the file vanishes before the read-only query.  end is
\* "exit": os.Exit(1); "continue": the operand is skipped; "rename":
\* os.Rename(src, dest) is called next.
LoopBody(f, filepath0, i, respRec, respFile, vanish) ==
    LET isDir == IsDir(f, filepath0)
        t1 == <<EvIsDir(i, filepath0, isDir)>>
    IN
    IF isDir.err THEN Exit(t1 \o <<EvErr(i, filepath0)>>, f)
    ELSE IF isDir.val /\ ~recursiveFlag /\ ~directoryFlag
    THEN Exit(t1 \o <<EvIsADirectory(i, filepath0)>>, f)
    ELSE
    LET askRec == isDir.val /\ nonintrusiveInteractiveFlag /\ recursiveFlag
        t2 == IF askRec THEN t1 \o <<EvRecPrompt(i, filepath0, respRec)>> ELSE t1
    IN
    IF askRec /\ ~getUserConfirmation(respRec) THEN Continue(t2, f)
    ELSE
    LET filename == LastSegment(filepath0)
        dest == targetDir \o <<"/">> \o filename
        t3 == IF interactiveFlag
              THEN t2 \o <<EvFilePrompt(i, filepath0, respFile)>> ELSE t2
    IN
    IF interactiveFlag /\ ~getUserConfirmation(respFile) THEN Continue(t3, f)
    ELSE
    LET filepath == IF filepath0[Len(filepath0)] = "/"
                    THEN TrimRight(filepath0) ELSE filepath0
        f2 == IF vanish THEN Vanished(f, filepath0) ELSE f
        fileIsReadOnly == IsReadOnly(f2, filepath)
        t4 == t3 \o <<EvIsReadOnly(i, filepath, fileIsReadOnly)>>
    IN
    IF fileIsReadOnly.err THEN Exit(t4 \o <<EvErr(i, filepath)>>, f2)
    ELSE IF fileIsReadOnly.val /\ ~forceFlag
    THEN Exit(t4 \o <<EvReadOnly(i)>>, f2)
    ELSE Rename(IF verboseFlag THEN t4 \o <<EvVerbose(i, filename)>> ELSE t4,
                f2, filepath, dest)

-----------------------------------------------------------------------------
(* The command lines of a run *)

FlagTokens == {VALIDARGS[k] : k \in 1..Len(VALIDARGS)}

\* the operands of the command lines: the directory is named the way shell
\* completion names it, with a trailing separator
Paths == {PathSA, PathB, PathDSlash, PathX}

\* the flags of S, each once, in the order of VALIDARGS
FlagSeq(S) == SelectSeq(VALIDARGS, LAMBDA t : t \in S)

\* what may follow the flags: operands, or the marker and operands that may
\* look like a flag
Markers == {<<>>, <<DoubleDash>>}

OperandPool(mk) == IF mk = <<>> THEN Paths ELSE Paths \cup {<<"-", "f">>}

\* a command line of at most MaxArgs tokens: flags (each once, in the order of
\* VALIDARGS), then possibly the marker, then the operands
IsArgv(a) ==
    \E S \in SUBSET FlagTokens, mk \in Markers :
       /\ Cardinality(S) + Len(mk) <= MaxArgs
       /\ \E m \in 0..(MaxArgs - Cardinality(S) - Len(mk)) :
            \E ops \in [1..m -> OperandPool(mk)] :
               a = FlagSeq(S) \o mk \o ops

-----------------------------------------------------------------------------
(* The run *)

\* the responses the user may give to a prompt that is asked under cond; no
\* response is read for a prompt that is never asked
ResponsesIf(cond) == IF cond THEN Responses ELSE {<<>>}

\* the os.Rename calls that have failed so far
RenameFailures == {k \in DOMAIN trace : trace[k].op = "Rename" /\ ~trace[k].ok}

\* whether os.Rename succeeds: any call may fail, MaxRenameFailures in a run
RenameOutcomes ==
    IF Cardinality(RenameFailures) < MaxRenameFailures THEN BOOLEAN ELSE {TRUE}

\* args is os.Args[1:] once parseArgs has read it
Init ==
    /\ args = <<>>
    /\ pc = "start"
    /\ targetDir = <<>>
    /\ flags = <<>>
    /\ files = <<>>
    /\ idx = 0
    /\ fs = World
    /\ trash = {}
    /\ trace = <<>>
    /\ exit = -1

\* main, line 117: targetDir := getTargetRmDir()
GetTargetRmDir ==
    /\ pc = "start"
    /\ \E homeDirErr \in BOOLEAN :
         IF homeDirErr
         THEN /\ trace' = Append(trace, EvNoHome)
              /\ exit' = 1
              /\ pc' = "done"
              /\ UNCHANGED targetDir
         ELSE /\ targetDir' = getTargetRmDir
              /\ pc' = "parse"
              /\ UNCHANGED <<trace, exit>>
    /\ UNCHANGED <<args, flags, files, idx, fs, trash>>

\* parseArgs on no token at all, exiting 0 as help does
parseArgsExit_ExitsZero ==
    /\ Len(args') < 1
    /\ trace' = Append(trace, EvUsage)
    /\ exit' = 0
    /\ pc' = "done"
    /\ UNCHANGED <<targetDir, flags, files, idx, fs, trash>>

\* parseArgs on no token at all: usage() and os.Exit(1)
parseArgsExit ==
    /\ Len(args') < 1
    /\ trace' = Append(trace, EvUsage)
    /\ exit' = 1
    /\ pc' = "done"
    /\ UNCHANGED <<targetDir, flags, files, idx, fs, trash>>

\* parseArgs on at least one token: flags and files are what the loop returns
parseArgsReturn ==
    /\ ~(Len(args') < 1)
    /\ flags' = parseArgs(args').flags
    /\ files' = parseArgs(args').files
    /\ pc' = "main"
    /\ UNCHANGED <<targetDir, idx, fs, trash, trace, exit>>

\* main, line 118, for the empty command line
ParseArgsUsage ==
    /\ pc = "parse"
    /\ IsArgv(args')
    /\ parseArgsExit

\* main, line 118: flags, files := parseArgs()
ParseArgs ==
    /\ pc = "parse"
    /\ IsArgv(args')
    /\ parseArgsReturn

\* help, exiting 1 as the usage error does
Help_ExitsOne ==
    /\ pc = "main"
    /\ helpFlag
    /\ trace' = Append(trace, EvUsage)
    /\ exit' = 1
    /\ pc' = "done"
    /\ UNCHANGED <<args, targetDir, flags, files, idx, fs, trash>>

\* main, lines 122-126: help
Help ==
    /\ pc = "main"
    /\ helpFlag
    /\ trace' = Append(trace, EvUsage)
    /\ exit' = 0
    /\ pc' = "done"
    /\ UNCHANGED <<args, targetDir, flags, files, idx, fs, trash>>

\* the -I prompt without the os.Exit(0) of a negative answer
CountPrompt_NoExit ==
    /\ pc = "main"
    /\ ~helpFlag
    /\ nonintrusiveInteractiveFlag /\ filesCount > BatchThreshold
    /\ \E resp \in Responses :
         trace' = Append(trace, EvCountPrompt(filesCount, resp))
    /\ pc' = "loop"
    /\ idx' = 1
    /\ UNCHANGED <<args, targetDir, flags, files, fs, trash, exit>>

\* main, lines 148-153: the -I prompt for more than three files
CountPrompt ==
    /\ pc = "main"
    /\ ~helpFlag
    /\ nonintrusiveInteractiveFlag /\ filesCount > BatchThreshold
    /\ \E resp \in Responses :
         /\ trace' = Append(trace, EvCountPrompt(filesCount, resp))
         /\ IF ~getUserConfirmation(resp)
            THEN exit' = 0 /\ pc' = "done" /\ UNCHANGED idx
            ELSE pc' = "loop" /\ idx' = 1 /\ UNCHANGED exit
    /\ UNCHANGED <<args, targetDir, flags, files, fs, trash>>

\* main, lines 148-155: no -I prompt is due, the loop starts
NoCountPrompt ==
    /\ pc = "main"
    /\ ~helpFlag
    /\ ~(nonintrusiveInteractiveFlag /\ filesCount > BatchThreshold)
    /\ pc' = "loop"
    /\ idx' = 1
    /\ UNCHANGED <<args, targetDir, flags, files, fs, trash, trace, exit>>

\* an iteration that ends in os.Exit(1)
LoopExit ==
    /\ pc = "loop"
    /\ idx <= Len(files)
    /\ \E respRec \in ResponsesIf(nonintrusiveInteractiveFlag /\ recursiveFlag),
          respFile \in ResponsesIf(interactiveFlag),
          vanish \in BOOLEAN :
         LET b == LoopBody(fs, files[idx], idx, respRec, respFile, vanish) IN
         /\ b.end = "exit"
         /\ trace' = trace \o b.ev
         /\ fs' = b.fs
    /\ exit' = 1
    /\ pc' = "done"
    /\ UNCHANGED <<args, targetDir, flags, files, idx, trash>>

\* an iteration that ends in continue: the user declined the operand
LoopContinue ==
    /\ pc = "loop"
    /\ idx <= Len(files)
    /\ \E respRec \in ResponsesIf(nonintrusiveInteractiveFlag /\ recursiveFlag),
          respFile \in ResponsesIf(interactiveFlag) :
         LET b == LoopBody(fs, files[idx], idx, respRec, respFile, FALSE) IN
         /\ b.end = "continue"
         /\ trace' = trace \o b.ev
    /\ idx' = idx + 1
    /\ UNCHANGED <<args, pc, targetDir, flags, files, fs, trash, exit>>

\* an iteration that reaches os.Rename(filepath, dest); its error is dropped
LoopRename ==
    /\ pc = "loop"
    /\ idx <= Len(files)
    /\ \E respRec \in ResponsesIf(nonintrusiveInteractiveFlag /\ recursiveFlag),
          respFile \in ResponsesIf(interactiveFlag),
          ok \in RenameOutcomes :
         LET b == LoopBody(fs, files[idx], idx, respRec, respFile, FALSE) IN
         /\ b.end = "rename"
         /\ trace' = trace \o b.ev \o <<EvRename(idx, b.src, b.dest, ok)>>
         /\ fs' = (IF ok THEN RenameDone(fs, b.src) ELSE fs)
         /\ trash' = (IF ok THEN trash \cup {b.dest} ELSE trash)
    /\ idx' = idx + 1
    /\ UNCHANGED <<args, pc, targetDir, flags, files, exit>>

\* the loop is over and main returns: exit status 0
MainReturn ==
    /\ pc = "loop"
    /\ idx > Len(files)
    /\ exit' = 0
    /\ pc' = "done"
    /\ UNCHANGED <<args, targetDir, flags, files, idx, fs, trash, trace>>

Next ==
    \/ GetTargetRmDir
    \/ ParseArgsUsage
    \/ ParseArgs
    \/ Help
    \/ CountPrompt
    \/ NoCountPrompt
    \/ LoopExit
    \/ LoopContinue
    \/ LoopRename
    \/ MainReturn

Spec == Init /\ [][Next]_vars

-----------------------------------------------------------------------------
(* The argument classifier on its own: any sequence of tokens *)

\* every flag, the marker, a path, and a token that only looks like a flag
ParseTokens == FlagTokens \cup {DoubleDash, PathSA, <<"-", "z">>}

\* a command line of at most MaxParse tokens, in any order
IsTokens(a) == \E m \in 0..MaxParse : a \in [1..m -> ParseTokens]

\* the state in which parseArgs is called
InitParse ==
    /\ args = <<>>
    /\ pc = "parse"
    /\ targetDir = Tmp
    /\ flags = <<>>
    /\ files = <<>>
    /\ idx = 0
    /\ fs = World
    /\ trash = {}
    /\ trace = <<>>
    /\ exit = -1

\* parseArgs for the empty sequence
ClassifyNone ==
    /\ pc = "parse"
    /\ IsTokens(args')
    /\ parseArgsExit

\* parseArgs for any sequence of tokens
Classify ==
    /\ pc = "parse"
    /\ IsTokens(args')
    /\ parseArgsReturn

NextParse ==
    \/ ClassifyNone
    \/ Classify

SpecParse == InitParse /\ [][NextParse]_vars

-----------------------------------------------------------------------------
(* getUserConfirmation on its own: one line of input after the other *)

MaxAsked == 2

\* the input is at its end: fmt.Scanln fails with io.EOF
EndOfInput == <<"EOF">>

\* the first space-delimited token of a line
RECURSIVE FirstToken(_)
FirstToken(line) ==
    IF line = <<>> \/ Head(line) = " " THEN <<>>
    ELSE <<Head(line)>> \o FirstToken(Tail(line))

RECURSIVE SkipSpaces(_)
SkipSpaces(line) ==
    IF line # <<>> /\ Head(line) = " " THEN SkipSpaces(Tail(line)) ELSE line

\* what fmt.Scanln(&interactiveResponse) stores: the first token of the line,
\* also when it then fails on a second token, and nothing when it fails at once
Scanln(input) ==
    IF input = EndOfInput THEN <<>> ELSE FirstToken(SkipSpaces(input))

ToUpper(s) ==
    [k \in 1..Len(s) |->
        IF \E j \in 1..Len(LowerCase) : LowerCase[j] = s[k]
        THEN UpperCase[CHOOSE j \in 1..Len(LowerCase) : LowerCase[j] = s[k]]
        ELSE s[k]]

\* the lines typed at a prompt: the affirmative words and what is near them
InputLines ==
    LET Near(w) ==
          { w, ToUpper(w), ToUpper(SubSeq(w, 1, 1)) \o Tail(w),
            Append(w, "s"), SubSeq(w, 1, Len(w) - 1), w \o w,
            <<" ">> \o w, ToUpper(w) \o <<" ", "x">>, <<"x", " ">> \o w }
    IN  UNION { Near(AFFIRMATIVE[k]) : k \in 1..Len(AFFIRMATIVE) }
          \cup { <<>>, <<" ">>, <<"n">>, <<"N", "O">>, EndOfInput }

\* getUserConfirmation(msg) reads input
EvPrompt(input) ==
    Ev("prompt", 0, 0, NoPath, input, "msg", getUserConfirmation(Scanln(input)))

InitConfirm ==
    /\ args = <<>>
    /\ pc = "confirm"
    /\ targetDir = Tmp
    /\ flags = <<>>
    /\ files = <<>>
    /\ idx = 0
    /\ fs = World
    /\ trash = {}
    /\ trace = <<>>
    /\ exit = -1

\* one call of getUserConfirmation
Confirm ==
    /\ pc = "confirm"
    /\ Len(trace) < MaxAsked
    /\ \E input \in InputLines : trace' = Append(trace, EvPrompt(input))
    /\ UNCHANGED <<args, pc, targetDir, flags, files, idx, fs, trash, exit>>

NextConfirm == Confirm

SpecConfirm == InitConfirm /\ [][NextConfirm]_vars

-----------------------------------------------------------------------------
(* Vocabulary of the properties *)

\* the flag t is given on the command line: it stands before any marker
Given(t) ==
    \E k \in 1..Len(args) :
       /\ args[k] = t
       /\ \A j \in 1..(k - 1) : args[j] # DoubleDash

Recursive == Given(<<"-", "r">>) \/ Given(<<"-", "R">>)
AllowDir == Given(<<"-", "d">>)
Force == Given(<<"-", "f">>)
Interactive == Given(<<"-", "i">>)
Batch == Given(<<"-", "I">>)
HelpAsked == Given(<<"-", "h">>) \/ Given(<<"-", "-", "h", "e", "l", "p">>)

\* the run has ended with this exit status, and e is the last thing it did
EndedWith(k, status) == k = Len(trace) /\ pc = "done" /\ exit = status

\* os.Rename was called for the operand at position i
MoveAttempted(i) == \E k \in DOMAIN trace : trace[k].op = "Rename" /\ trace[k].i = i

\* the operand at position i was queried, prompted for or moved
Touched(i) == \E k \in DOMAIN trace : trace[k].i = i

\* what the file system of the run holds at a path, trailing separators aside
IsDirectoryInWorld(path) ==
    TrimRight(path) \in DOMAIN World /\ World[TrimRight(path)].dir

IsReadOnlyInWorld(path) ==
    TrimRight(path) \in DOMAIN World /\ World[TrimRight(path)].ro

NeverExists(path) ==
    TrimRight(path) \notin DOMAIN World \/ ~World[TrimRight(path)].exists

\* a response that is not one of the affirmative words, whatever its case
Negative(resp) ==
    ToLower(resp) \notin
        { <<"y">>, <<"y", "e", "s">>, <<"y", "e", "a">>, <<"y", "e", "a", "h">>,
          <<"d", "a">>, <<"s", "i">>, <<"l", "e", "t", "s", "g", "o">> }

\* no operand is supplied: every token is a flag before the marker, or a marker
NoOperands ==
    \A k \in 1..Len(args) :
       \/ args[k] = DoubleDash
       \/ args[k] \in FlagTokens /\ \A j \in 1..(k - 1) : args[j] # DoubleDash

\* the destination root was resolved
Resolved == targetDir # <<>>

\* no file was moved or removed
NothingTouched == fs = World /\ trash = {}

-----------------------------------------------------------------------------
(* C1 *)

DirectoryRejectedAt(k) ==
    /\ k < Len(trace)
    /\ trace[k + 1].op = "print"
    /\ trace[k + 1].res = "srm: %s: is a directory"
    /\ trace[k + 1].path = trace[k].path

\* C1: whenever the is-directory query of an operand answers for a directory,
\* the run prints "srm: <path>: is a directory" and exits 1 right there if and
\* only if none of -r, -R, -d is given; on a rejection nothing follows the
\* message, no move was attempted for the operand and no later operand was
\* touched.
C1_DirectoryRejection ==
    \A k \in DOMAIN trace :
       (trace[k].op = "IsDir" /\ trace[k].ok /\ IsDirectoryInWorld(trace[k].path))
       => /\ DirectoryRejectedAt(k) <=> (~Recursive /\ ~AllowDir)
          /\ DirectoryRejectedAt(k)
             => /\ EndedWith(k + 1, 1)
                /\ ~MoveAttempted(trace[k].i)
                /\ \A j \in (trace[k].i + 1)..Len(files) : ~Touched(j)

\* a directory named second is rejected after the first operand was moved
C1_Witness ==
    /\ pc = "done" /\ exit = 1
    /\ Len(trace) > 2
    /\ trace[Len(trace)].res = "srm: %s: is a directory"
    /\ trace[Len(trace)].i = 2
    /\ MoveAttempted(1)

-----------------------------------------------------------------------------
(* C2 *)

ReadOnlyRejectedAt(k) ==
    /\ k < Len(trace)
    /\ trace[k + 1].op = "print"
    /\ trace[k + 1].res = "File is read-only"

\* C2: whenever the read-only query of an operand answers for a path without
\* the write bit: without -f the run prints "File is read-only" and exits 1
\* right there, with no move attempted for the operand or any later one; with
\* -f the operand's move is attempted.
C2_ReadOnlyRejection ==
    \A k \in DOMAIN trace :
       (trace[k].op = "IsReadOnly" /\ trace[k].ok /\ IsReadOnlyInWorld(trace[k].path))
       => IF ~Force
          THEN /\ ReadOnlyRejectedAt(k)
               /\ EndedWith(k + 1, 1)
               /\ \A j \in trace[k].i..Len(files) : ~MoveAttempted(j)
          ELSE /\ ~ReadOnlyRejectedAt(k)
               /\ \E j \in DOMAIN trace :
                    /\ j > k
                    /\ trace[j].op = "Rename"
                    /\ trace[j].i = trace[k].i
                    /\ trace[j].path = trace[k].path

\* a read-only file is moved under -f
C2_Witness ==
    /\ Force
    /\ \E k \in DOMAIN trace :
         /\ trace[k].op = "Rename" /\ trace[k].ok
         /\ IsReadOnlyInWorld(trace[k].path)

-----------------------------------------------------------------------------
(* C3 *)

DeclinedAt(k) ==
    /\ trace[k].op = "prompt"
    /\ trace[k].res = "remove %s?"
    /\ Negative(trace[k].dest)

\* C3: with -i, an operand whose prompt "remove <path>?" is answered
\* negatively is never moved, and the run goes on with the next operand in
\* order (or returns 0 after the last one); a run in which every operand is
\* declined exits 0.
C3_InteractiveDecline ==
    Interactive =>
       /\ \A k \in DOMAIN trace :
             DeclinedAt(k) =>
                LET i == trace[k].i IN
                /\ ~MoveAttempted(i)
                /\ \/ k = Len(trace) /\ pc = "loop" /\ idx = i + 1
                   \/ /\ k < Len(trace) /\ i < Len(files)
                      /\ trace[k + 1].op = "IsDir"
                      /\ trace[k + 1].i = i + 1
                      /\ trace[k + 1].path = files[i + 1]
                   \/ i = Len(files) /\ EndedWith(k, 0)
       /\ ( /\ pc = "done"
            /\ files # <<>>
            /\ \A i \in 1..Len(files) :
                  \E k \in DOMAIN trace : DeclinedAt(k) /\ trace[k].i = i )
          => exit = 0

\* two operands, both declined, and the run has exited 0
C3_Witness ==
    /\ Interactive
    /\ pc = "done" /\ exit = 0
    /\ Len(files) = 2
    /\ \A i \in 1..2 : \E k \in DOMAIN trace : DeclinedAt(k) /\ trace[k].i = i
    /\ NothingTouched

-----------------------------------------------------------------------------
(* C4 *)

CountDeclinedAt(k) ==
    /\ trace[k].op = "prompt"
    /\ trace[k].res = "remove %d files?"
    /\ Negative(trace[k].dest)

\* C4: a negative answer to the prompt "remove N files?" ends the run with
\* status 0 and the prompt is all the run ever did: no query, no other prompt,
\* no line printed and no move, whatever the operands are.
C4_BatchDecline ==
    \A k \in DOMAIN trace :
       CountDeclinedAt(k) =>
          /\ Batch /\ Len(files) > 3
          /\ k = 1
          /\ EndedWith(1, 0)
          /\ NothingTouched

\* the prompt was declined for operands that include a missing file, a
\* directory and a read-only file
C4_Witness ==
    /\ trace # <<>> /\ CountDeclinedAt(1)
    /\ \E i, j, l \in 1..Len(files) :
         /\ NeverExists(files[i])
         /\ IsDirectoryInWorld(files[j])
         /\ IsReadOnlyInWorld(files[l])
    /\ ~Recursive /\ ~AllowDir /\ ~Force

-----------------------------------------------------------------------------
(* C5 *)

\* C5: an operand written with trailing separators is handled as the operand
\* without them: the source path moved is the operand without its trailing
\* separators, the destination is the destination root joined with that
\* path's final segment, and the name printed under -v is that final segment.
C5_TrailingSeparator ==
    \A k \in DOMAIN trace :
       LET p == TrimRight(files[trace[k].i]) IN
       /\ trace[k].op = "Rename"
          => /\ trace[k].path = p
             /\ trace[k].dest = targetDir \o <<"/">> \o LastSegment(p)
       /\ (trace[k].op = "print" /\ trace[k].res = "filename")
          => trace[k].path = LastSegment(p)

-----------------------------------------------------------------------------
(* C6 *)

IsFlagToken(t) == t \in FlagTokens

\* the position of the first marker, or one past the end
FirstMarker ==
    IF \E k \in 1..Len(args) : args[k] = DoubleDash
    THEN CHOOSE k \in 1..Len(args) :
            args[k] = DoubleDash /\ \A j \in 1..(k - 1) : args[j] # DoubleDash
    ELSE Len(args) + 1

BeforeMarker == SubSeq(args, 1, FirstMarker - 1)
AfterMarker == SubSeq(args, FirstMarker + 1, Len(args))

\* C6: once the classifier has run, the flag list holds the recognized flags
\* that stand before the marker and nothing else; every token after the marker
\* that is spelled like a flag is in the operand list, in order; and a flag
\* boolean is set only by a token before the marker.
C6_NoFlagAfterMarker ==
    pc = "main" =>
       /\ flags = SelectSeq(BeforeMarker, IsFlagToken)
       /\ SelectSeq(files, IsFlagToken) = SelectSeq(AfterMarker, IsFlagToken)
       /\ \A t \in FlagTokens : In(t, flags) <=> Given(t)
       /\ forceFlag <=> Force
       /\ interactiveFlag <=> Interactive
       /\ helpFlag <=> HelpAsked

\* -- -f was classified: no flag, and -f is the operand
C6_Witness ==
    /\ pc = "main"
    /\ args = <<DoubleDash, <<"-", "f">>>>
    /\ flags = <<>>
    /\ files = << <<"-", "f">> >>

-----------------------------------------------------------------------------
(* C7 *)

\* the last thing the run did is one of the four fatal conditions
FatalLast ==
    /\ trace # <<>>
    /\ LET e == trace[Len(trace)] IN
       \/ e.op = "usage" /\ args = <<>>
       \/ e.op = "print" /\ e.res = "err"
       \/ e.op = "print" /\ e.res = "srm: %s: is a directory"
       \/ e.op = "print" /\ e.res = "File is read-only"

-----------------------------------------------------------------------------
(* C8 *)

\* C8 as stated: every invocation without operands (no token at all, or only
\* flags other than help and markers) prints the usage text and exits 1
\* without touching a file.
C8_UsageWithoutOperands ==
    (pc = "done" /\ Resolved /\ NoOperands /\ ~HelpAsked) =>
       /\ trace = <<EvUsage>>
       /\ exit = 1
       /\ NothingTouched

\* C8 as the code has it: the invocation with no token at all prints the usage
\* text and exits 1; an invocation of only flags other than help and markers
\* prints nothing and exits 0; neither touches a file.
C8_UsageOnEmptyCommandLine ==
    (pc = "done" /\ Resolved /\ NoOperands /\ ~HelpAsked) =>
       /\ NothingTouched
       /\ IF args = <<>>
          THEN trace = <<EvUsage>> /\ exit = 1
          ELSE trace = <<>> /\ exit = 0

\* the invocation with no token at all has printed the usage text and exited 1
C8_Witness ==
    /\ pc = "done" /\ Resolved
    /\ args = <<>>
    /\ trace = <<EvUsage>>
    /\ exit = 1

-----------------------------------------------------------------------------
(* C9 *)

-----------------------------------------------------------------------------
(* C10 *)

\* C10: with -f, the query of an operand that does not exist is followed by
\* no diagnostic and does not end the run with status 1.
C10_ForceIgnoresMissing ==
    Force =>
       \A k \in DOMAIN trace :
          (trace[k].op = "IsDir" /\ NeverExists(trace[k].path))
          => /\ ~(k < Len(trace) /\ trace[k + 1].op = "print")
             /\ ~(pc = "done" /\ exit = 1 /\ trace[Len(trace)].i = trace[k].i)

-----------------------------------------------------------------------------
(* C11 *)

-----------------------------------------------------------------------------
(* Two command lines compared: what the classifier hands to the run *)

Has(fl, t) == \E k \in 1..Len(fl) : fl[k] = t

\* the settings a list of flags stands for
SettingsOf(fl) ==
    [ help        |-> Has(fl, <<"-", "h">>) \/ Has(fl, <<"-", "-", "h", "e", "l", "p">>),
      force       |-> Has(fl, <<"-", "f">>),
      interactive |-> Has(fl, <<"-", "i">>),
      batch       |-> Has(fl, <<"-", "I">>),
      recursive   |-> Has(fl, <<"-", "r">>) \/ Has(fl, <<"-", "R">>),
      directory   |-> Has(fl, <<"-", "d">>),
      verbose     |-> Has(fl, <<"-", "v">>) ]

\* what the command line a would give: the usage error, or the operands and
\* the settings of the run
OutcomeOf(a) ==
    IF Len(a) < 1
    THEN [usage |-> TRUE, files |-> <<>>, settings |-> SettingsOf(<<>>)]
    ELSE [usage |-> FALSE, files |-> parseArgs(a).files,
          settings |-> SettingsOf(parseArgs(a).flags)]

\* what the command line of this run has given: the operands of the loop and
\* the booleans main reads
Outcome ==
    [ usage |-> pc = "done" /\ exit = 1 /\ trace = <<EvUsage>>,
      files |-> files,
      settings |->
        [ help        |-> helpFlag,
          force       |-> forceFlag,
          interactive |-> interactiveFlag,
          batch       |-> nonintrusiveInteractiveFlag,
          recursive   |-> recursiveFlag,
          directory   |-> directoryFlag,
          verbose     |-> verboseFlag ] ]

Classified == pc \in {"main", "done"}

-----------------------------------------------------------------------------
(* C12 *)

NoOpFlag == <<"-", "P">>

\* the command line of this run with every -P before the marker taken out
WithoutNoOp ==
    SelectSeq(BeforeMarker, LAMBDA t : t # NoOpFlag)
        \o SubSeq(args, FirstMarker, Len(args))

-----------------------------------------------------------------------------
(* C13 *)

\* the command line of this run with each flag given once, all flags first
GivenOnce ==
    FlagSeq({t \in FlagTokens : Given(t)})
        \o SelectSeq(BeforeMarker, LAMBDA t : ~IsFlagToken(t))
        \o SubSeq(args, FirstMarker, Len(args))

\* C13: a command line gives the run the same settings and the same operands,
\* in the same order, as the command line with each of its flags given once
\* and before the operands.
C13_FlagsIdempotent ==
    Classified => Outcome = OutcomeOf(GivenOnce)

\* -f is given twice, around an operand
C13_Witness ==
    /\ pc = "main"
    /\ args = << <<"-", "f">>, PathSA, <<"-", "f">> >>
    /\ forceFlag
    /\ files = <<PathSA>>

-----------------------------------------------------------------------------
(* C14 *)

YesWords ==
    { <<"y">>, <<"y", "e", "s">>, <<"y", "e", "a">>, <<"y", "e", "a", "h">>,
      <<"d", "a">>, <<"s", "i">>, <<"l", "e", "t", "s", "g", "o">> }

\* tk is w up to the case of its letters
FoldsTo(tk, w) ==
    /\ Len(tk) = Len(w)
    /\ \A k \in 1..Len(w) :
          \/ tk[k] = w[k]
          \/ \E j \in 1..26 : tk[k] = UpperCase[j] /\ w[k] = LowerCase[j]

\* the line holds a first token, after spaces and up to a space or the end of
\* the line, that is an affirmative word up to case
SaysYes(line) ==
    /\ line # EndOfInput
    /\ \E a \in 0..Len(line) : \E b \in (a + 1)..Len(line) :
          /\ \A k \in 1..a : line[k] = " "
          /\ \A k \in (a + 1)..b : line[k] # " "
          /\ b = Len(line) \/ line[b + 1] = " "
          /\ \E w \in YesWords : FoldsTo(SubSeq(line, a + 1, b), w)

\* C14: a prompt returns true exactly when the first token of the line read,
\* case-folded, is one of y, yes, yea, yeah, da, si, letsgo; on any other
\* line, the empty line and the end of input included, it returns false, and
\* no prompt ends the run.
C14_Confirmation ==
    pc = "confirm" =>
       /\ \A k \in 1..Len(trace) :
             /\ trace[k].op = "prompt"
             /\ trace[k].ok = SaysYes(trace[k].dest)
       /\ exit = -1

\* LETSGO is read as yes, then the input ends
C14_Witness ==
    /\ pc = "confirm"
    /\ Len(trace) = 2
    /\ trace[1].dest = <<"L", "E", "T", "S", "G", "O">> /\ trace[1].ok
    /\ trace[2].dest = EndOfInput /\ ~trace[2].ok
    /\ exit = -1

-----------------------------------------------------------------------------
(* C15 *)

\* a prompt for the operand at position i was answered negatively
Declined(i) ==
    \E k \in DOMAIN trace :
       trace[k].op = "prompt" /\ trace[k].i = i /\ Negative(trace[k].dest)

\* the operand at position i has been moved: its path is gone and its
\* destination is in the destination root
Moved(i) ==
    \E k \in DOMAIN trace :
       /\ trace[k].op = "Rename" /\ trace[k].i = i
       /\ ~fs[trace[k].path].exists
       /\ trace[k].dest \in trash

\* C15: the operands are touched in command-line order and those touched so
\* far are the first ones of the list; when the run has ended with status 1 at
\* the operand at position k, no later operand has been touched and every
\* earlier operand that was not declined is moved.
C15_InOrderUntilFatal ==
    pc \in {"loop", "done"} =>
       /\ \A k, l \in DOMAIN trace : k < l => trace[k].i <= trace[l].i
       /\ \A i \in 1..Len(files) : Touched(i) => \A j \in 1..(i - 1) : Touched(j)
       /\ (pc = "done" /\ exit = 1 /\ trace # <<>>) =>
             LET k == trace[Len(trace)].i IN
             /\ \A j \in (k + 1)..Len(files) : ~Touched(j)
             /\ \A j \in 1..(k - 1) : ~Declined(j) => Moved(j)

-----------------------------------------------------------------------------
(* C16 *)

\* the number of operands on the command line: the tokens that are neither a
\* flag before the marker nor the marker
OperandCount ==
    Cardinality({ k \in 1..Len(args) :
                    /\ args[k] # DoubleDash
                    /\ ~(IsFlagToken(args[k]) /\ k < FirstMarker) })

\* where the run has issued "remove N files?"
CountPrompts ==
    { k \in DOMAIN trace : trace[k].op = "prompt" /\ trace[k].res = "remove %d files?" }

\* C16: "remove N files?" is issued at most once; once the run is past it, it
\* was issued exactly when -I is given, help is not asked for and there are
\* more than 3 operands; when issued it is the first thing the run does and N
\* is the number of operands.
C16_CountPromptOnce ==
    /\ Cardinality(CountPrompts) <= 1
    /\ \A k \in CountPrompts :
          /\ k = 1
          /\ trace[k].n = OperandCount
          /\ trace[k].i = 0
    /\ pc \in {"loop", "done"} =>
          (CountPrompts # {} <=> (Batch /\ ~HelpAsked /\ OperandCount > 3))

\* four operands with -I: the prompt says 4, is answered yes, and the loop
\* has gone on to the operands
C16_Witness ==
    /\ Batch /\ OperandCount = 4
    /\ Len(trace) > 1
    /\ trace[1].op = "prompt" /\ trace[1].res = "remove %d files?"
    /\ trace[1].n = 4 /\ trace[1].ok
    /\ trace[2].op = "IsDir" /\ trace[2].i = 1

-----------------------------------------------------------------------------
(* C17 *)

IsRecPrompt(e) == e.op = "prompt" /\ e.res = "recursively remove %s?"

\* C17: "recursively remove <path>?" is issued exactly for an operand that the
\* is-directory query has just found to be a directory, with -I and -r or -R
\* given; a negative answer ends the handling of that operand, with nothing
\* more queried, prompted, printed or moved for it, and the run goes on with
\* the next operand (or returns 0 after the last); any other answer lets the
\* handling of the operand go on.
C17_RecursivePrompt ==
    \A k \in DOMAIN trace :
       /\ IsRecPrompt(trace[k]) =>
             /\ Batch /\ Recursive
             /\ k > 1
             /\ trace[k - 1].op = "IsDir" /\ trace[k - 1].res = "dir"
             /\ trace[k - 1].i = trace[k].i
             /\ trace[k].path = files[trace[k].i]
             /\ IsDirectoryInWorld(trace[k].path)
             /\ IF Negative(trace[k].dest)
                THEN /\ \A l \in (k + 1)..Len(trace) : trace[l].i > trace[k].i
                     /\ k < Len(trace) =>
                           trace[k + 1].op = "IsDir" /\ trace[k + 1].i = trace[k].i + 1
                     /\ k = Len(trace) =>
                           \/ pc = "loop" /\ idx = trace[k].i + 1
                           \/ pc = "done" /\ exit = 0 /\ trace[k].i = Len(files)
                ELSE k < Len(trace) /\ trace[k + 1].i = trace[k].i
       /\ (trace[k].op = "IsDir" /\ trace[k].res = "dir" /\ Batch /\ Recursive) =>
             /\ k < Len(trace)
             /\ IsRecPrompt(trace[k + 1])
             /\ trace[k + 1].i = trace[k].i

\* -I and a recursive flag, without -d: the directory is declined and the
\* next operand is moved
C17_Witness ==
    /\ Batch /\ Recursive /\ ~AllowDir
    /\ \E k \in DOMAIN trace :
          /\ IsRecPrompt(trace[k]) /\ Negative(trace[k].dest)
          /\ trace[k].path = PathDSlash
          /\ \E l \in (k + 1)..Len(trace) :
                trace[l].op = "Rename" /\ trace[l].i = trace[k].i + 1 /\ trace[l].ok

-----------------------------------------------------------------------------
(* C18 *)

IsFilePrompt(e) == e.op = "prompt" /\ e.res = "remove %s?"

-----------------------------------------------------------------------------
(* C19 *)

\* C19: once the classifier has run, the operands are the tokens before the
\* first marker that are not recognized flags, in order, followed by every
\* token after the first marker, a later marker included; the flags are the
\* recognized flags before the first marker, in order; the first marker is in
\* neither.
C19_Partition ==
    pc = "main" =>
       /\ files = SelectSeq(BeforeMarker, LAMBDA t : ~IsFlagToken(t)) \o AfterMarker
       /\ flags = SelectSeq(BeforeMarker, IsFlagToken)

-----------------------------------------------------------------------------
(* C20 *)

IsVerboseLine(e) == e.op = "print" /\ e.res = "filename"

\* the display name of an operand: the final segment of its path, trailing
\* separators aside
DisplayName(path) == LastSegment(TrimRight(path))

\* C20: a line with the display name of an operand is printed only with -v,
\* and then exactly when the operand is moved: the line is the last thing done
\* for the operand before os.Rename is called for it, and with -v every call
\* of os.Rename comes right after such a line.
C20_VerboseRecord ==
    \A k \in DOMAIN trace :
       /\ IsVerboseLine(trace[k]) =>
             /\ Given(<<"-", "v">>)
             /\ k < Len(trace)
             /\ trace[k + 1].op = "Rename" /\ trace[k + 1].i = trace[k].i
             /\ trace[k].path = DisplayName(files[trace[k].i])
       /\ (trace[k].op = "Rename" /\ Given(<<"-", "v">>)) =>
             /\ k > 1
             /\ IsVerboseLine(trace[k - 1]) /\ trace[k - 1].i = trace[k].i

====
